---- MODULE Spec2Model ----
(***************************************************************************)
(* Model of src/app.py: the MovieRecommender engine (two CSV loaders, the  *)
(* feature builder, get_recommendations) and the part of main() that       *)
(* builds the engine and serves queries.                                   *)
(*                                                                         *)
(* Numbers.  A rating is counted in half stars (4.0 stars = 8), so that a  *)
(* mean is the exact rational sum/count.  TF-IDF weights, unit vectors and *)
(* cosine similarities are fixed point with three decimals (x 1000).       *)
(***************************************************************************)
EXTENDS Integers, Sequences, FiniteSets, Bags, TLC

VARIABLES
    movies_csv,          \* the file at movies_path (input, never written)
    ratings_csv,         \* the file at ratings_path (input, never written)
    pc,                  \* position of main(): start .. ready, returned / failed, stopped
    error,               \* the exception that ended initialization ("" if none)
    movies,              \* self.movies: sequence of catalog rows
    movies_columns,      \* columns of the frame read by _load_movies
    ratings,             \* self.ratings: bag of rating rows
    movie_ratings,       \* self.movie_ratings: bag of joined (title, rating) rows
    movie_stats,         \* self.movie_stats: set of rows, one per title
    tfidf,               \* self.tfidf: the fitted vectorizer (token -> idf)
    genre_matrix,        \* self.genre_matrix: one unit vector per catalog row
    result,              \* outcome of the last get_recommendations call
    trace                \* initialization steps run so far (history)

vars == <<movies_csv, ratings_csv, pc, error, movies, movies_columns, ratings,
          movie_ratings, movie_stats, tfidf, genre_matrix, result, trace>>

engine == <<movies, movies_columns, ratings, movie_ratings, movie_stats, tfidf,
            genre_matrix>>

(***************************************************************************)
(* Bounds of the model.                                                    *)
(***************************************************************************)
MaxMovies == 3       \* data lines of a catalog file
MaxLiked == 2        \* length of the likedTitles argument

(***************************************************************************)
(* Program constants.                                                      *)
(***************************************************************************)
MinMeanHalfStars == 7    \* mean_rating > 3.5
MinRatingCount == 300    \* rating_count > 300
DefaultTopN == 10        \* top_n=10

(***************************************************************************)
(* CSV cells and the conversions applied to them.                          *)
(***************************************************************************)
NumCell(n) == [kind |-> "num", num |-> n, text |-> ToString(n)]
TextCell(s) == [kind |-> "text", num |-> 0, text |-> s]
EmptyCell == [kind |-> "empty", num |-> 0, text |-> ""]

NaN == [nan |-> TRUE, v |-> 0]
Num(x) == [nan |-> FALSE, v |-> x]

\* pd.to_numeric(column, errors='coerce'), cell by cell
ToNumeric(c) == IF c.kind = "num" THEN Num(c.num) ELSE NaN

\* column.astype(str), cell by cell
AsStr(c) == IF c.kind = "empty" THEN "nan" ELSE c.text

\* column.fillna('Unknown'), cell by cell
FillNaUnknown(c) == IF c.kind = "empty" THEN "Unknown" ELSE c.text

\* the column name pandas gives a header cell
ColumnName(c) == IF c.kind = "empty" THEN "Unnamed" ELSE c.text

Range(s) == {s[i] : i \in DOMAIN s}

RECURSIVE SumSeq(_)
SumSeq(s) == IF s = <<>> THEN 0 ELSE Head(s) + SumSeq(Tail(s))

RECURSIVE SetToSeq(_)
SetToSeq(S) == IF S = {} THEN <<>>
               ELSE LET x == CHOOSE y \in S : TRUE IN <<x>> \o SetToSeq(S \ {x})

\* sum of f[x] over the domain of the function f
SumFn(f) == LET s == SetToSeq(DOMAIN f) IN SumSeq([i \in DOMAIN s |-> f[s[i]]])

(***************************************************************************)
(* pd.read_csv.  A file is [readable, header_parses, names_parses, first,  *)
(* rest]: first is its first line, rest the lines after it (a sequence for *)
(* the catalog, a bag for the ratings).  header_parses / names_parses say  *)
(* whether pandas' parser accepts the file with an inferred header, resp.  *)
(* with header=None and the given names.                                   *)
(***************************************************************************)
ReadCsvRaises(file) == ~file.readable \/ ~file.header_parses

ReadCsvNamesRaises(file) == ~file.readable \/ ~file.names_parses

\* columns of pd.read_csv(path): the cells of the first line
HeaderColumns(file) == [i \in DOMAIN file.first |-> ColumnName(file.first[i])]

\* cell of a line under a column name (NaN when the line is too short)
Cell(columns, line, name) ==
    IF \E i \in DOMAIN columns : columns[i] = name /\ i <= Len(line)
    THEN line[CHOOSE i \in DOMAIN columns : columns[i] = name /\ i <= Len(line)]
    ELSE EmptyCell

MovieNames == <<"movieId", "title", "genres">>
RatingNames == <<"userId", "movieId", "rating", "timestamp">>

(***************************************************************************)
(* MovieRecommender._load_movies                                           *)
(***************************************************************************)
\* faulty variant: the read with names also replaces a header read that lacks a column
MoviesFrameFallbackOnValidation(file) ==
    IF ~ReadCsvRaises(file)
       /\ \A c \in {"movieId", "title", "genres"} :
              \E i \in DOMAIN file.first : ColumnName(file.first[i]) = c
    THEN [columns |-> HeaderColumns(file), rows |-> file.rest]
    ELSE [columns |-> <<"movieId", "title", "genres">>,
          rows |-> <<file.first>> \o file.rest]

\* lines 35-40: the frame read, with the inferred header or, if that read
\* raised, with header=None and the three names
MoviesFrame(file) ==
    IF ~ReadCsvRaises(file)
    THEN [columns |-> HeaderColumns(file), rows |-> file.rest]
    ELSE [columns |-> MovieNames, rows |-> <<file.first>> \o file.rest]

\* lines 43-46: some required column is not among the frame's columns
MissingColumn(columns, required) == \E c \in required : c \notin Range(columns)

\* lines 49-51: the three columns converted, row by row
CleanMovie(columns, line) ==
    [movieId |-> ToNumeric(Cell(columns, line, "movieId")),
     title |-> AsStr(Cell(columns, line, "title")),
     genres |-> FillNaUnknown(Cell(columns, line, "genres"))]

\* line 54: dropna(subset=['movieId']); the rows kept, in file order
CleanMovies(frame) ==
    LET converted == [i \in DOMAIN frame.rows |-> CleanMovie(frame.columns, frame.rows[i])]
        kept == SelectSeq(converted, LAMBDA r : ~r.movieId.nan)
    IN [i \in DOMAIN kept |->
            [movieId |-> kept[i].movieId.v, title |-> kept[i].title,
             genres |-> kept[i].genres]]

\* the exception _load_movies raises on this file ("" when it returns)
LoadMoviesError(file) ==
    IF ReadCsvRaises(file) /\ ReadCsvNamesRaises(file)
    THEN IF file.readable THEN "ParserError" ELSE "IOError"
    ELSE IF MissingColumn(MoviesFrame(file).columns, {"movieId", "title", "genres"})
         THEN "SchemaError"
         ELSE ""

(***************************************************************************)
(* MovieRecommender._load_ratings                                          *)
(***************************************************************************)
RatingsFrame(file) ==
    IF ~ReadCsvRaises(file)
    THEN [columns |-> HeaderColumns(file), rows |-> file.rest]
    ELSE [columns |-> RatingNames, rows |-> file.rest (+) SetToBag({file.first})]

\* lines 88-90
CleanRating(columns, line) ==
    [userId |-> ToNumeric(Cell(columns, line, "userId")),
     movieId |-> ToNumeric(Cell(columns, line, "movieId")),
     rating |-> ToNumeric(Cell(columns, line, "rating"))]

\* line 93: dropna(subset=['userId', 'movieId', 'rating']); a row is kept
\* only if all three values are numbers.  The bag of the rows kept.
CleanRatings(frame) ==
    LET lines == BagToSet(frame.rows)
        conv(l) == CleanRating(frame.columns, l)
        valid == {l \in lines : LET r == conv(l)
                                IN ~r.userId.nan /\ ~r.movieId.nan /\ ~r.rating.nan}
        plain(l) == [userId |-> conv(l).userId.v, movieId |-> conv(l).movieId.v,
                     rating |-> conv(l).rating.v]
    IN [r \in {plain(l) : l \in valid} |->
            SumFn([l \in {k \in valid : plain(k) = r} |-> frame.rows[l]])]

\* faulty variant: the loader swallows its exception and returns what it has
LoadRatingsErrorSwallowed(file) == ""

LoadRatingsError(file) ==
    IF ReadCsvRaises(file) /\ ReadCsvNamesRaises(file)
    THEN IF file.readable THEN "ParserError" ELSE "IOError"
    ELSE IF MissingColumn(RatingsFrame(file).columns, {"userId", "movieId", "rating"})
         THEN "SchemaError"
         ELSE ""

(***************************************************************************)
(* MovieRecommender._preprocess_data: the join and the per-title stats     *)
(***************************************************************************)
\* line 106: pd.merge(movies, ratings, on='movieId'), an inner join: one
\* joined row per pair (catalog row, rating row) with equal movieId.  The
\* bag of the joined rows' (title, rating).
MergeOnMovieId(ms, rs) ==
    LET pairs == {p \in (DOMAIN ms) \X BagToSet(rs) : ms[p[1]].movieId = p[2].movieId}
        row(p) == [title |-> ms[p[1]].title, rating |-> p[2].rating]
    IN [j \in {row(p) : p \in pairs} |->
            SumFn([p \in {q \in pairs : row(q) = j} |-> rs[p[2]]])]

\* lines 109-118: groupby('title').agg(mean, count).  mean_rating is the
\* rational num/den in half stars.
GroupByTitle(joined) ==
    LET rows == BagToSet(joined)
        of(t) == {j \in rows : j.title = t}
        count(t) == SumFn([j \in of(t) |-> joined[j]])
        total(t) == SumFn([j \in of(t) |-> joined[j] * j.rating])
    IN {[title |-> t,
         mean_rating |-> [num |-> total(t), den |-> count(t)],
         rating_count |-> count(t)] : t \in {j.title : j \in rows}}

(***************************************************************************)
(* TfidfVectorizer(stop_words='english'): lowercase, tokens of two or more *)
(* word characters, English stop words removed, idf = ln((1+n)/(1+df)) + 1 *)
(* (smooth), rows scaled to unit length (norm='l2').                       *)
(***************************************************************************)
\* the lowercased tokens of two or more word characters of a genre text
Tokens(text) ==
    CASE text = "Comedy" -> <<"comedy">>
      [] text = "Drama" -> <<"drama">>
      [] text = "Comedy|Drama" -> <<"comedy", "drama">>
      [] text = "Other" -> <<"other">>
      [] text = "Unknown" -> <<"unknown">>

\* the members of sklearn's ENGLISH_STOP_WORDS among the tokens above
StopWords == {"other"}

Analyze(text) == SelectSeq(Tokens(text), LAMBDA t : t \notin StopWords)

\* round(1000 * (ln((1 + n) / (1 + df)) + 1)) for 1 <= df <= n <= 7
IdfTable ==
    <<  <<1000>>,
        <<1405, 1000>>,
        <<1693, 1288, 1000>>,
        <<1916, 1511, 1223, 1000>>,
        <<2099, 1693, 1405, 1182, 1000>>,
        <<2253, 1847, 1560, 1336, 1154, 1000>>,
        <<2386, 1981, 1693, 1470, 1288, 1134, 1000>>  >>

\* fit: the vocabulary of the corpus and each token's idf
Fit(docs) ==
    LET vocabulary == UNION {Range(Analyze(docs[i])) : i \in DOMAIN docs}
        df(t) == Cardinality({i \in DOMAIN docs : t \in Range(Analyze(docs[i]))})
    IN [t \in vocabulary |-> IdfTable[Len(docs)][df(t)]]

\* fit raises "empty vocabulary" when no document holds a token
FitRaises(docs) == \A i \in DOMAIN docs : Analyze(docs[i]) = <<>>

\* Newton's iteration downwards from x >= sqrt(n)
RECURSIVE ISqrtFrom(_, _)
ISqrtFrom(n, x) ==
    LET y == (x + n \div x) \div 2
    IN IF y >= x THEN x ELSE ISqrtFrom(n, y)

\* floor of the square root
ISqrt(n) ==
    IF n = 0 THEN 0
    ELSE ISqrtFrom(n, IF n < 1024 * 1024 THEN 1024
                      ELSE IF n < 8192 * 8192 THEN 8192 ELSE 46340)

Dot(x, y) == SumFn([t \in DOMAIN x |-> x[t] * y[t]])

\* sklearn.preprocessing.normalize: a row divided by its length; a row of
\* zeros stays as it is
Normalize(x) ==
    LET norm == ISqrt(Dot(x, x))
    IN IF norm = 0 THEN x ELSE [t \in DOMAIN x |-> (x[t] * 1000) \div norm]

\* transform of one document under the fitted idf
TransformDoc(idf, text) ==
    LET toks == Analyze(text)
        tf(t) == Cardinality({i \in DOMAIN toks : toks[i] = t})
    IN Normalize([t \in DOMAIN idf |-> tf(t) * idf[t]])

Transform(idf, docs) == [i \in DOMAIN docs |-> TransformDoc(idf, docs[i])]

\* sklearn cosine_similarity(X, Y): both normalized again, then X . Y^T
CosineSimilarity(X, Y) ==
    [i \in DOMAIN X |->
        [j \in DOMAIN Y |-> Dot(Normalize(X[i]), Normalize(Y[j])) \div 1000]]

Genres(ms) == [i \in DOMAIN ms |-> ms[i].genres]

(***************************************************************************)
(* MovieRecommender.get_recommendations                                    *)
(***************************************************************************)
Titles(ms) == {ms[i].title : i \in DOMAIN ms}

\* faulty variant: only the first input title is validated
ValidMoviesFirstOnly(ms, input_movies) ==
    IF input_movies # <<>> /\ Head(input_movies) \in Titles(ms)
    THEN <<Head(input_movies)>> ELSE <<>>

\* line 136: the input titles found in the catalog, in input order
ValidMovies(ms, input_movies) ==
    SelectSeq(input_movies, LAMBDA m : m \in Titles(ms))

\* line 138: the guard of the raise
NoValidInput(valid_movies) == valid_movies = <<>>

\* faulty variant: the rows are taken title by title, in the order of the input
RECURSIVE QueryRowsInputOrder(_, _)
QueryRowsInputOrder(ms, valid_movies) ==
    IF valid_movies = <<>> THEN <<>>
    ELSE LET RECURSIVE Of(_)
             Of(k) == IF k > Len(ms) THEN <<>>
                      ELSE (IF ms[k].title = Head(valid_movies) THEN <<k>> ELSE <<>>)
                           \o Of(k + 1)
         IN Of(1) \o QueryRowsInputOrder(ms, Tail(valid_movies))

\* line 143: movies[movies['title'].isin(valid_movies)], the catalog rows
\* bearing a valid title, in catalog order (their positions)
QueryRows(ms, valid_movies) ==
    LET isin == {i \in DOMAIN ms : ms[i].title \in Range(valid_movies)}
        RECURSIVE Ascending(_)
        Ascending(k) == IF k > Len(ms) THEN <<>>
                        ELSE (IF k \in isin THEN <<k>> ELSE <<>>) \o Ascending(k + 1)
    IN Ascending(1)

\* faulty variant: fit_transform instead of transform: the vectorizer is fitted again
FitTransformEffect(docs) == tfidf' = Fit(docs)

\* line 142: the transform leaves the fitted vectorizer as it is
TransformEffect(docs) == tfidf' = tfidf

\* faulty variant: row [-1] of the similarity matrix
GenreSimilaritiesLast(idf, matrix, docs) ==
    CosineSimilarity(Transform(idf, docs), matrix)[Len(docs)]

\* lines 142-147: row [0] of the similarity matrix
GenreSimilarities(idf, matrix, docs) ==
    CosineSimilarity(Transform(idf, docs), matrix)[1]

\* lines 157-161: left merge with movie_stats on title
LeftMergeStats(row, stats) ==
    IF \E st \in stats : st.title = row.title
    THEN LET st == CHOOSE x \in stats : x.title = row.title
         IN [title |-> row.title, genres |-> row.genres,
             genre_similarity |-> row.genre_similarity,
             mean_rating |-> [nan |-> FALSE, num |-> st.mean_rating.num,
                              den |-> st.mean_rating.den],
             rating_count |-> Num(st.rating_count)]
    ELSE [title |-> row.title, genres |-> row.genres,
          genre_similarity |-> row.genre_similarity,
          mean_rating |-> [nan |-> TRUE, num |-> 0, den |-> 1],
          rating_count |-> NaN]

\* faulty variant: only the first liked title is excluded
NotLikedFirstOnly(row, valid_movies) == row.title # Head(valid_movies)

\* line 166
NotLiked(row, valid_movies) == row.title \notin Range(valid_movies)

\* faulty variant: >= instead of >
RatedWellInclusive(row) ==
    /\ ~row.mean_rating.nan
    /\ row.mean_rating.num >= MinMeanHalfStars * row.mean_rating.den
    /\ ~row.rating_count.nan
    /\ row.rating_count.v >= MinRatingCount

\* lines 168-169: a comparison with NaN is False; the mean num/den is in
\* half stars, 3.5 stars are 7
RatedWell(row) ==
    /\ ~row.mean_rating.nan
    /\ row.mean_rating.num > MinMeanHalfStars * row.mean_rating.den
    /\ ~row.rating_count.nan
    /\ row.rating_count.v > MinRatingCount

\* line 174: sort_values('genre_similarity', ascending=False); rows of equal
\* similarity keep their order
RECURSIVE InsertBySimilarity(_, _)
InsertBySimilarity(sorted, row) ==
    IF sorted = <<>> THEN <<row>>
    ELSE IF Head(sorted).genre_similarity >= row.genre_similarity
         THEN <<Head(sorted)>> \o InsertBySimilarity(Tail(sorted), row)
         ELSE <<row>> \o sorted

\* faulty variant: ascending=False forgotten
RECURSIVE InsertAscending(_, _)
InsertAscending(sorted, row) ==
    IF sorted = <<>> THEN <<row>>
    ELSE IF Head(sorted).genre_similarity <= row.genre_similarity
         THEN <<Head(sorted)>> \o InsertAscending(Tail(sorted), row)
         ELSE <<row>> \o sorted

RECURSIVE SortAscending(_)
SortAscending(rows) ==
    IF rows = <<>> THEN <<>>
    ELSE InsertAscending(SortAscending(SubSeq(rows, 1, Len(rows) - 1)),
                         rows[Len(rows)])

RECURSIVE SortBySimilarity(_)
SortBySimilarity(rows) ==
    IF rows = <<>> THEN <<>>
    ELSE InsertBySimilarity(SortBySimilarity(SubSeq(rows, 1, Len(rows) - 1)),
                            rows[Len(rows)])

\* line 175: DataFrame.head(n); a negative n drops the last -n rows
HeadN(rows, n) ==
    LET k == IF n >= 0 THEN (IF n < Len(rows) THEN n ELSE Len(rows))
             ELSE (IF Len(rows) + n > 0 THEN Len(rows) + n ELSE 0)
    IN SubSeq(rows, 1, k)

\* lines 176-181
Renamed(row) ==
    [title |-> row.title, genres |-> row.genres, similarity |-> row.genre_similarity,
     mean |-> row.mean_rating, count |-> row.rating_count]

NoResult == [status |-> "none", input_movies |-> <<>>, top_n |-> 0,
             genre_similarities |-> <<>>, rows |-> <<>>]

\* line 143: the genre texts handed to tfidf.transform
QueryDocs(ms, valid_movies) ==
    LET q == QueryRows(ms, valid_movies) IN [k \in DOMAIN q |-> ms[q[k]].genres]

\* lines 150-170: the merged frame, filtered (not yet sorted)
Filtered(ms, stats, genre_similarities, valid_movies) ==
    LET recommendations ==
            [i \in DOMAIN ms |->
                LeftMergeStats([title |-> ms[i].title, genres |-> ms[i].genres,
                                genre_similarity |-> genre_similarities[i]], stats)]
    IN SelectSeq(recommendations, LAMBDA r : NotLiked(r, valid_movies) /\ RatedWell(r))

\* the outcome of get_recommendations(input_movies, top_n) on an engine
Recommend(ms, stats, idf, matrix, input_movies, top_n) ==
    LET valid_movies == ValidMovies(ms, input_movies)
    IN IF NoValidInput(valid_movies)
       THEN [status |-> "ValueError", input_movies |-> input_movies, top_n |-> top_n,
             genre_similarities |-> <<>>, rows |-> <<>>]
       ELSE
       LET genre_similarities ==
               GenreSimilarities(idf, matrix, QueryDocs(ms, valid_movies))
           top == HeadN(SortBySimilarity(
                            Filtered(ms, stats, genre_similarities, valid_movies)),
                        top_n)
       IN [status |-> "ok", input_movies |-> input_movies, top_n |-> top_n,
           genre_similarities |-> genre_similarities,
           rows |-> [i \in DOMAIN top |-> Renamed(top[i])]]

(***************************************************************************)
(* Inputs: the two files, and the arguments of a query.                    *)
(***************************************************************************)
MoviesHeader == <<TextCell("movieId"), TextCell("title"), TextCell("genres")>>
RatingsHeader == <<TextCell("userId"), TextCell("movieId"), TextCell("rating"),
                   TextCell("timestamp")>>

MovieLine(id, title, genres) == <<id, TextCell(title), genres>>

MovieLines ==
    { MovieLine(NumCell(1), "A", TextCell("Comedy")),
      MovieLine(NumCell(2), "B", TextCell("Comedy|Drama")),
      MovieLine(NumCell(3), "C", TextCell("Drama")) }

\* lines with an id or a title met before, with a movieId that is no number,
\* with stop words only, without genres
SameTitleLine == MovieLine(NumCell(2), "A", TextCell("Drama"))
BadIdLine == MovieLine(TextCell("x"), "B", TextCell("Comedy"))
OtherLine == MovieLine(NumCell(3), "C", TextCell("Other"))
NoGenresLine == MovieLine(NumCell(4), "B", EmptyCell)

Catalogs ==
    UNION {[1..n -> MovieLines] : n \in 0..MaxMovies}
    \cup { <<MovieLine(NumCell(1), "A", TextCell("Comedy")), SameTitleLine,
             MovieLine(NumCell(3), "C", TextCell("Drama"))>>,
           <<SameTitleLine, MovieLine(NumCell(2), "B", TextCell("Comedy|Drama")),
             MovieLine(NumCell(1), "A", TextCell("Comedy"))>>,
           <<BadIdLine, MovieLine(NumCell(1), "A", TextCell("Comedy")),
             MovieLine(NumCell(3), "C", TextCell("Drama"))>>,
           <<MovieLine(NumCell(1), "A", TextCell("Comedy")), OtherLine,
             MovieLine(NumCell(3), "C", TextCell("Drama"))>>,
           <<MovieLine(NumCell(1), "A", TextCell("Comedy")), NoGenresLine,
             MovieLine(NumCell(2), "B", TextCell("Comedy|Drama"))>>,
           <<OtherLine>> }

CsvFile(first, rest) ==
    [readable |-> TRUE, header_parses |-> TRUE, names_parses |-> TRUE,
     first |-> first, rest |-> rest]

ThreeLines == << MovieLine(NumCell(1), "A", TextCell("Comedy")),
                 MovieLine(NumCell(2), "B", TextCell("Comedy|Drama")),
                 MovieLine(NumCell(3), "C", TextCell("Drama")) >>

\* files the header read rejects or that lack a column
OddMovieFiles ==
    { \* no such file
      [readable |-> FALSE, header_parses |-> FALSE, names_parses |-> FALSE,
       first |-> <<>>, rest |-> <<>>],
      \* a header without the genres column
      CsvFile(<<TextCell("movieId"), TextCell("title")>>,
              << <<NumCell(1), TextCell("A")>>, <<NumCell(2), TextCell("B")>> >>),
      \* the columns in another order
      CsvFile(<<TextCell("title"), TextCell("genres"), TextCell("movieId")>>,
              << <<TextCell("A"), TextCell("Comedy"), NumCell(1)>>,
                 <<TextCell("B"), TextCell("Drama"), NumCell(2)>> >>),
      \* no header line: the first line is a movie
      CsvFile(ThreeLines[1], Tail(ThreeLines)),
      \* the header read raises, the read with names does not
      [readable |-> TRUE, header_parses |-> FALSE, names_parses |-> TRUE,
       first |-> ThreeLines[1], rest |-> Tail(ThreeLines)],
      [readable |-> TRUE, header_parses |-> FALSE, names_parses |-> TRUE,
       first |-> MoviesHeader, rest |-> ThreeLines],
      \* both reads raise
      [readable |-> TRUE, header_parses |-> FALSE, names_parses |-> FALSE,
       first |-> ThreeLines[1], rest |-> Tail(ThreeLines)] }

MovieFiles == {CsvFile(MoviesHeader, c) : c \in Catalogs} \cup OddMovieFiles

RatingLine(user, movie, rating) == <<user, movie, rating, NumCell(0)>>

\* n ratings of `rating` half stars for movie id
Block(id, rating, n) ==
    [l \in {RatingLine(NumCell(7), NumCell(id), NumCell(rating))} |-> n]

RatingTables ==
    { EmptyBag,
      \* every movie rated 4.0 by 301
      Block(1, 8, 301) (+) Block(2, 8, 301) (+) Block(3, 8, 301) (+) Block(4, 8, 301),
      \* exactly 300 ratings (id 2), a mean of exactly 3.5 (id 3), one rating (id 4)
      Block(1, 8, 301) (+) Block(2, 8, 300) (+) Block(3, 6, 151) (+) Block(3, 8, 151)
          (+) Block(4, 8, 1),
      \* rows with a field that is not a number, and an id not in the catalog;
      \* exactly 300 valid ratings (id 3)
      Block(1, 8, 301) (+) Block(3, 8, 300)
          (+) [l \in {RatingLine(TextCell("u"), NumCell(2), NumCell(8)),
                      RatingLine(NumCell(7), EmptyCell, NumCell(8)),
                      RatingLine(NumCell(7), NumCell(3), TextCell("good")),
                      RatingLine(NumCell(7), NumCell(9), NumCell(8))} |-> 301] }

OddRatingFiles ==
    { [readable |-> FALSE, header_parses |-> FALSE, names_parses |-> FALSE,
       first |-> <<>>, rest |-> EmptyBag],
      \* a header without the rating column
      CsvFile(<<TextCell("userId"), TextCell("movieId")>>,
              [l \in {<<NumCell(7), NumCell(1)>>} |-> 301]),
      \* the header read raises, the read with names does not
      [readable |-> TRUE, header_parses |-> FALSE, names_parses |-> TRUE,
       first |-> RatingLine(NumCell(7), NumCell(1), NumCell(8)),
       rest |-> Block(1, 8, 300) (+) Block(2, 8, 301)],
      [readable |-> TRUE, header_parses |-> FALSE, names_parses |-> FALSE,
       first |-> RatingsHeader, rest |-> Block(1, 8, 301)] }

RatingFiles == {CsvFile(RatingsHeader, t) : t \in RatingTables} \cup OddRatingFiles

LikedTitles == {"A", "B", "Z"}
LikedLists == UNION {[1..n -> LikedTitles] : n \in 0..MaxLiked}
TopNs == {-1, 0, 1, DefaultTopN}

(***************************************************************************)
(* The state machine: main() builds the engine, then serves queries.       *)
(***************************************************************************)
Init ==
    /\ movies_csv \in MovieFiles
    /\ ratings_csv \in RatingFiles
    /\ pc = "start"
    /\ error = ""
    /\ movies = <<>>
    /\ movies_columns = <<>>
    /\ ratings = EmptyBag
    /\ movie_ratings = EmptyBag
    /\ movie_stats = {}
    /\ tfidf = <<>>
    /\ genre_matrix = <<>>
    /\ result = NoResult
    /\ trace = <<>>

\* __init__ line 17: self.movies = self._load_movies(movies_path)
LoadMovies ==
    /\ pc = "start"
    /\ trace' = Append(trace, "load_movies")
    /\ LET e == LoadMoviesError(movies_csv)
       IN /\ error' = e
          /\ IF e \in {"IOError", "ParserError"}
             THEN UNCHANGED <<movies, movies_columns>> /\ pc' = "failed"
             ELSE /\ movies_columns' = MoviesFrame(movies_csv).columns
                  /\ IF e = "SchemaError"
                     THEN UNCHANGED movies /\ pc' = "failed"
                     ELSE movies' = CleanMovies(MoviesFrame(movies_csv))
                          /\ pc' = "movies_loaded"
    /\ UNCHANGED <<movies_csv, ratings_csv, ratings, movie_ratings, movie_stats,
                   tfidf, genre_matrix, result>>

\* __init__ line 18: self.ratings = self._load_ratings(ratings_path)
LoadRatings ==
    /\ pc = "movies_loaded"
    /\ trace' = Append(trace, "load_ratings")
    /\ LET e == LoadRatingsError(ratings_csv)
       IN /\ error' = e
          /\ IF e # ""
             THEN UNCHANGED ratings /\ pc' = "failed"
             ELSE ratings' = CleanRatings(RatingsFrame(ratings_csv))
                  /\ pc' = "ratings_loaded"
    /\ UNCHANGED <<movies_csv, ratings_csv, movies, movies_columns, movie_ratings,
                   movie_stats, tfidf, genre_matrix, result>>

\* __init__ line 21: self._preprocess_data()
PreprocessData ==
    /\ pc = "ratings_loaded"
    /\ trace' = Append(trace, "preprocess")
    /\ movie_ratings' = MergeOnMovieId(movies, ratings)
    /\ movie_stats' = GroupByTitle(movie_ratings')
    /\ IF FitRaises(Genres(movies))
       THEN error' = "ValueError" /\ pc' = "failed" /\ UNCHANGED <<tfidf, genre_matrix>>
       ELSE /\ tfidf' = Fit(Genres(movies))
            /\ genre_matrix' = Transform(tfidf', Genres(movies))
            /\ pc' = "ready"
            /\ UNCHANGED error
    /\ UNCHANGED <<movies_csv, ratings_csv, movies, movies_columns, ratings, result>>

\* main lines 194-196: the exception is reported and the script stops
MainStop ==
    /\ pc = "failed"
    /\ pc' = "stopped"
    /\ UNCHANGED <<movies_csv, ratings_csv, error, engine, result, trace>>

\* main line 193 returned: the engine exists and may be queried
EngineAvailable == pc = "ready"

\* a call of recommender.get_recommendations(input_movies, top_n), from its
\* entry to its return or raise
GetRecommendations(input_movies, top_n) ==
    /\ EngineAvailable
    /\ result' = Recommend(movies, movie_stats, tfidf, genre_matrix, input_movies, top_n)
    /\ IF result'.status = "ok"
       THEN TransformEffect(QueryDocs(movies, ValidMovies(movies, input_movies)))
       ELSE UNCHANGED tfidf
    /\ pc' = "returned"
    /\ UNCHANGED <<movies_csv, ratings_csv, error, movies, movies_columns, ratings,
                   movie_ratings, movie_stats, genre_matrix, trace>>

Query == \E input_movies \in LikedLists, top_n \in TopNs :
            GetRecommendations(input_movies, top_n)

\* main lines 218-238: the caller shows the rows, the "no recommendations"
\* warning or the error message, and drops the returned frame; the engine
\* is there for the next call
Render ==
    /\ pc = "returned"
    /\ pc' = "ready"
    /\ result' = NoResult
    /\ UNCHANGED <<movies_csv, ratings_csv, error, engine, trace>>

Next == LoadMovies \/ LoadRatings \/ PreprocessData \/ MainStop \/ Query \/ Render

Spec == Init /\ [][Next]_vars


(***************************************************************************)
(* Properties.                                                             *)
(***************************************************************************)
\* the valid subset of a likedTitles list
ValidSet(liked) == Range(liked) \cap Titles(movies)

\* the filtered, unsorted candidates of the last call
LastFiltered ==
    Filtered(movies, movie_stats, result.genre_similarities,
             ValidMovies(movies, result.input_movies))

\* C1: every row returned by getRecommendations has a mean rating strictly
\* above 3.5 (7 half stars) and strictly more than 300 ratings, and belongs
\* to a title that has a MovieStats row with these values.
C1_RatingThresholds ==
    result.status = "ok" =>
        \A i \in DOMAIN result.rows :
            LET r == result.rows[i]
            IN /\ ~r.mean.nan /\ r.mean.num > 7 * r.mean.den
               /\ ~r.count.nan /\ r.count.v > 300
               /\ \E st \in movie_stats :
                     /\ st.title = r.title
                     /\ st.rating_count = r.count.v
                     /\ st.mean_rating.num = r.mean.num
                     /\ st.mean_rating.den = r.mean.den

\* a call returned rows while a title that was not liked sat exactly on a
\* threshold (mean exactly 3.5, or exactly 300 ratings)
C1_Witness ==
    /\ result.status = "ok"
    /\ result.rows # <<>>
    /\ \E st \in movie_stats :
          /\ st.title \in Titles(movies) \ Range(result.input_movies)
          /\ \/ st.rating_count = 300 /\ st.mean_rating.num > 7 * st.mean_rating.den
             \/ st.rating_count > 300 /\ st.mean_rating.num = 7 * st.mean_rating.den

\* C2: no returned row bears a title of the valid subset of likedTitles.
C2_NoLikedTitle ==
    result.status = "ok" =>
        \A i \in DOMAIN result.rows :
            result.rows[i].title \notin ValidSet(result.input_movies)

\* rows were returned, and two catalog rows with different ids share a liked
\* title whose ratings pass both thresholds
C2_Witness ==
    /\ result.status = "ok"
    /\ result.rows # <<>>
    /\ \E i, j \in DOMAIN movies :
          /\ movies[i].movieId # movies[j].movieId
          /\ movies[i].title = movies[j].title
          /\ movies[i].title \in ValidSet(result.input_movies)
          /\ \E st \in movie_stats :
                /\ st.title = movies[i].title
                /\ st.rating_count > 300
                /\ st.mean_rating.num > 7 * st.mean_rating.den

NonIncreasing(rows) ==
    \A i \in 1..(Len(rows) - 1) : rows[i].similarity >= rows[i + 1].similarity

\* C3 as claimed: for every integer topN the returned sequence has at most
\* topN rows and its similarity scores are non-increasing.
C3_Original ==
    result.status = "ok" =>
        /\ Len(result.rows) <= result.top_n
        /\ NonIncreasing(result.rows)

\* C3 amended: for every topN >= 0 the returned sequence has at most topN
\* rows; for a negative topN it holds all candidates but the last -topN; for
\* every topN its similarity scores are non-increasing.
C3_LengthAndOrder ==
    result.status = "ok" =>
        /\ result.top_n >= 0 => Len(result.rows) <= result.top_n
        /\ result.top_n < 0 =>
              Len(result.rows) = IF Len(LastFiltered) + result.top_n > 0
                                 THEN Len(LastFiltered) + result.top_n ELSE 0
        /\ NonIncreasing(result.rows)

\* topN = 1 cut two candidates down to one, and the one returned is not the
\* first candidate in catalog order
C3_Witness ==
    /\ result.status = "ok"
    /\ result.top_n = 1
    /\ Len(result.rows) = 1
    /\ Len(LastFiltered) >= 2
    /\ result.rows[1].similarity > LastFiltered[1].genre_similarity

\* C4: getRecommendations raises if and only if no element of likedTitles is
\* a catalog title; otherwise it returns a sequence, which is empty when no
\* catalog row passes the filters.
C4_RaisesIffNoValidTitle ==
    result.status # "none" =>
        /\ result.status = "ValueError" <=> ValidSet(result.input_movies) = {}
        /\ result.status = "ok" <=> ValidSet(result.input_movies) # {}
        /\ result.status = "ValueError" => result.rows = <<>>
        /\ (result.status = "ok" /\ result.top_n > 0) =>
              (result.rows = <<>> <=>
                  \A i \in DOMAIN movies :
                      \/ movies[i].title \in ValidSet(result.input_movies)
                      \/ ~\E st \in movie_stats :
                            /\ st.title = movies[i].title
                            /\ st.rating_count > 300
                            /\ st.mean_rating.num > 7 * st.mean_rating.den)

\* a list whose first title is unknown and whose second is in the catalog
\* returned, without error, the empty sequence
C4_Witness ==
    /\ result.status = "ok"
    /\ Len(result.input_movies) = 2
    /\ result.input_movies[1] \notin Titles(movies)
    /\ result.top_n > 0
    /\ result.rows = <<>>

\* C5: a getRecommendations call, returning or raising, leaves the engine's
\* catalog, ratings, stats and feature space unchanged; the same call on the
\* engine as the call left it gives the same outcome; and after the caller
\* handled the outcome the same engine is ready for the next call.
C5_QueryIsPure ==
    [][ /\ (pc = "ready" /\ pc' = "returned") =>
              /\ engine' = engine
              /\ Recommend(movies', movie_stats', tfidf', genre_matrix',
                           result'.input_movies, result'.top_n) = result'
        /\ pc = "returned" => (pc' = "ready" /\ engine' = engine) ]_vars

\* a call with two liked titles, one of them in the catalog, returned rows
C5_Witness ==
    /\ pc = "returned"
    /\ result.status = "ok"
    /\ result.rows # <<>>
    /\ Len(QueryDocs(movies, ValidMovies(movies, result.input_movies))) < Len(movies)

\* the valid rating lines of the ratings file: all three fields are numbers
ValidRatingLines ==
    LET frame == RatingsFrame(ratings_csv)
    IN {l \in BagToSet(frame.rows) :
           /\ Cell(frame.columns, l, "userId").kind = "num"
           /\ Cell(frame.columns, l, "movieId").kind = "num"
           /\ Cell(frame.columns, l, "rating").kind = "num"}

\* those of them whose movieId is the id of some catalog row with the title
RatingLinesOf(title) ==
    LET frame == RatingsFrame(ratings_csv)
    IN {l \in ValidRatingLines :
           \E i \in DOMAIN movies :
               /\ movies[i].title = title
               /\ movies[i].movieId = Cell(frame.columns, l, "movieId").num}

RatingCountOf(title) ==
    SumFn([l \in RatingLinesOf(title) |-> RatingsFrame(ratings_csv).rows[l]])

RatingSumOf(title) ==
    LET frame == RatingsFrame(ratings_csv)
    IN SumFn([l \in RatingLinesOf(title) |->
                 frame.rows[l] * Cell(frame.columns, l, "rating").num])

\* C6: after initialization, for every title with a MovieStats row,
\* ratingCount is the number and meanRating the mean of exactly the valid
\* rating rows whose movieId is the id of some catalog row with that title.
C6_StatsOfRatingRows ==
    pc \in {"ready", "returned"} =>
        \A st \in movie_stats :
            /\ st.rating_count = RatingCountOf(st.title)
            /\ st.mean_rating.num * RatingCountOf(st.title)
                   = RatingSumOf(st.title) * st.mean_rating.den

HeaderReadOk(file) == file.readable /\ file.header_parses
NamesReadOk(file) == file.readable /\ file.names_parses
HeaderNames(file) == {ColumnName(file.first[i]) : i \in DOMAIN file.first}
PositionalRows(file) ==
    CleanMovies([columns |-> <<"movieId", "title", "genres">>,
                 rows |-> <<file.first>> \o file.rest])

\* C7 as claimed: when the header read fails to parse or lacks a required
\* column, the loader falls back to the headerless read with positional
\* names, and SchemaError is raised only if a column is absent after that.
C7_Original ==
    trace = <<"load_movies">> =>
        /\ ( /\ NamesReadOk(movies_csv)
             /\ \/ ~HeaderReadOk(movies_csv)
                \/ ~({"movieId", "title", "genres"} \subseteq HeaderNames(movies_csv)) )
           => ( /\ pc = "movies_loaded"
                /\ movies_columns = <<"movieId", "title", "genres">>
                /\ movies = PositionalRows(movies_csv) )
        /\ error # "SchemaError"

\* C7 amended: the loader falls back to the headerless read with positional
\* names only when the header read itself raises; when the header read
\* succeeds but lacks a required column it raises SchemaError without any
\* fallback; after a fallback no column is missing.
C7_FallbackOnlyWhenReadRaises ==
    trace = <<"load_movies">> =>
        LET f == movies_csv
            complete == {"movieId", "title", "genres"} \subseteq HeaderNames(f)
        IN /\ (HeaderReadOk(f) /\ complete) =>
                  /\ pc = "movies_loaded" /\ error = ""
                  /\ movies_columns = HeaderColumns(f)
                  /\ Len(movies) <= Len(f.rest)
           /\ (HeaderReadOk(f) /\ ~complete) =>
                  /\ pc \in {"failed", "stopped"} /\ error = "SchemaError"
                  /\ movies = <<>>
           /\ (~HeaderReadOk(f) /\ NamesReadOk(f)) =>
                  /\ pc = "movies_loaded" /\ error = ""
                  /\ movies_columns = <<"movieId", "title", "genres">>
                  /\ movies = PositionalRows(f)
           /\ (~HeaderReadOk(f) /\ ~NamesReadOk(f)) =>
                  /\ pc \in {"failed", "stopped"} /\ error \in {"IOError", "ParserError"}
                  /\ movies = <<>>

\* a file without header line, which the headerless read would accept, was
\* read with its first movie as the header and refused with SchemaError
C7_Witness ==
    /\ trace = <<"load_movies">>
    /\ error = "SchemaError"
    /\ NamesReadOk(movies_csv)
    /\ movies_csv.first[1].kind = "num"

FullTrace == <<"load_movies", "load_ratings", "preprocess">>

MoviesLoadable(file) ==
    \/ HeaderReadOk(file) /\ {"movieId", "title", "genres"} \subseteq HeaderNames(file)
    \/ ~HeaderReadOk(file) /\ NamesReadOk(file)

RatingsLoadable(file) ==
    \/ HeaderReadOk(file) /\ {"userId", "movieId", "rating"} \subseteq HeaderNames(file)
    \/ ~HeaderReadOk(file) /\ NamesReadOk(file)

\* C8: initialization runs the catalog loader, the ratings loader and the
\* feature builder in this order, each at most once, the feature builder
\* only after both loaders succeeded; when a loader or the feature build
\* fails the error is kept, no engine is available and no query is served.
C8_InitOnceThenServe ==
    /\ \E n \in 0..3 : trace = SubSeq(FullTrace, 1, n)
    /\ Len(trace) >= 2 => MoviesLoadable(movies_csv)
    /\ Len(trace) = 3 => RatingsLoadable(ratings_csv)
    /\ pc \in {"ready", "returned"} =>
          /\ trace = FullTrace /\ error = ""
          /\ MoviesLoadable(movies_csv) /\ RatingsLoadable(ratings_csv)
          /\ DOMAIN tfidf # {} /\ Len(genre_matrix) = Len(movies)
    /\ result.status # "none" => pc = "returned"
    /\ error # "" <=> pc \in {"failed", "stopped"}
    /\ pc \in {"failed", "stopped"} => (result = NoResult /\ genre_matrix = <<>>)
    /\ ( \/ ~MoviesLoadable(movies_csv)
         \/ ~RatingsLoadable(ratings_csv) ) => result = NoResult

\* both loaders succeeded, the feature build failed, and main() stopped
C8_Witness ==
    /\ pc = "stopped"
    /\ trace = FullTrace
    /\ error = "ValueError"
    /\ result = NoResult

\* the titles of a set, once each, in catalog order of their first rows
RECURSIVE InCatalogOrder(_, _)
InCatalogOrder(S, k) ==
    IF k > Len(movies) THEN <<>>
    ELSE (IF movies[k].title \in S /\ \A h \in 1..(k - 1) : movies[h].title # movies[k].title
          THEN <<movies[k].title>> ELSE <<>>) \o InCatalogOrder(S, k + 1)

\* C9: the returned sequence depends only on the set of valid liked titles
\* (and topN): a call gives what the call with the valid titles alone, each
\* once, in a fixed order gives; so any two lists with the same valid set,
\* whatever their order, repetitions and unknown titles, give the same.
C9_DependsOnValidSetOnly ==
    result.status = "ok" =>
        LET other == Recommend(movies, movie_stats, tfidf, genre_matrix,
                               InCatalogOrder(ValidSet(result.input_movies), 1),
                               result.top_n)
        IN /\ other.status = "ok"
           /\ other.rows = result.rows
           /\ other.genre_similarities = result.genre_similarities

\* rows were returned for two valid liked titles given in the reverse of
\* their catalog order, whose first catalog rows differ in genres
C9_Witness ==
    /\ result.status = "ok"
    /\ result.rows # <<>>
    /\ Len(result.input_movies) = 2
    /\ \E i, j \in DOMAIN movies :
          /\ i < j
          /\ movies[i].title = result.input_movies[2]
          /\ movies[j].title = result.input_movies[1]
          /\ movies[i].title # movies[j].title
          /\ \A k \in 1..(j - 1) : movies[k].title # movies[j].title
          /\ \A k \in 1..(i - 1) : movies[k].title # movies[i].title
          /\ genre_matrix[i] # genre_matrix[j]

\* the earliest catalog row bearing a valid liked title
FirstQueryRow(liked) ==
    CHOOSE i \in DOMAIN movies :
        /\ movies[i].title \in ValidSet(liked)
        /\ \A k \in 1..(i - 1) : movies[k].title \notin ValidSet(liked)

Cosine(x, y) == Dot(Normalize(x), Normalize(y)) \div 1000

\* C10: the score of every catalog row is the cosine similarity between its
\* genre vector and the genre vector of the earliest catalog row bearing a
\* valid liked title; the other liked titles change no score; every returned
\* row carries the score of a catalog row with its title and genres.
C10_FirstQueryRowOnly ==
    result.status = "ok" =>
        LET first == FirstQueryRow(result.input_movies)
        IN /\ Len(result.genre_similarities) = Len(movies)
           /\ \A i \in DOMAIN movies :
                 result.genre_similarities[i]
                     = Cosine(genre_matrix[first], genre_matrix[i])
           /\ result.genre_similarities
                 = Recommend(movies, movie_stats, tfidf, genre_matrix,
                             <<movies[first].title>>, result.top_n).genre_similarities
           /\ \A k \in DOMAIN result.rows :
                 \E i \in DOMAIN movies :
                     /\ movies[i].title = result.rows[k].title
                     /\ movies[i].genres = result.rows[k].genres
                     /\ result.genre_similarities[i] = result.rows[k].similarity

\* rows were returned for two valid liked titles whose catalog rows differ
\* in genres, the later of them scoring differently against some row
C10_Witness ==
    /\ result.status = "ok"
    /\ result.rows # <<>>
    /\ Cardinality(ValidSet(result.input_movies)) = 2
    /\ \E j, i \in DOMAIN movies :
          /\ movies[j].title \in ValidSet(result.input_movies)
          /\ j # FirstQueryRow(result.input_movies)
          /\ Cosine(genre_matrix[j], genre_matrix[i]) # result.genre_similarities[i]

====
